---- MODULE Spec2Model ----
(***************************************************************************)
(* A model of license-gen-cli: the license catalog (license.rs), the       *)
(* prompt protocol and the template renderers (io.rs, texts/*.rs) and the  *)
(* output phase that annotates source files and writes the license file   *)
(* (io.rs); and the dist command of the packaging tool (xtask/main.rs).   *)
(*                                                                         *)
(* A string the program builds character by character (an operator        *)
(* answer, a file's content, a rendered text) is a sequence of pieces; a   *)
(* piece is a one-character string, or a literal of the source kept whole. *)
(* LF and CR are the two line-ending characters.                           *)
(***************************************************************************)
EXTENDS Integers, Sequences, FiniteSets, TLC

VARIABLES
    pc,           \* the statement the process is at
    argv,         \* the license identifier given on the command line
    license,      \* Cli::license once parsed, NoLicense before
    answers,      \* the values the prompts of the generator have returned
    asked,        \* history: the questions issued so far, in order
    retries,      \* history: invalid answers given so far in the run
    stdin,        \* "open" or "closed" (end of input was read)
    prompting,    \* the prompt function called on its own, "" in a generator run
    typed,        \* history: what read_line returned to that function, in order
    texts,        \* the LicenseTexts the generator returned
    add_comment,  \* Cli::add_comment
    comment,      \* Cli::comment, the comment prefix
    fs,           \* the file system: path -> [kind, data]
    fs0,          \* history: the file system when the process started
    target,       \* write_comment's output_file
    entries,      \* iterate_dir: the entries read_dir has not yielded yet
    visited,      \* history: the entries iterate_dir has handed to write_comment
    reader,       \* write_comment: what BufReader has not read of the source yet
    stdout,       \* what was printed on standard output, in order
    stderr,       \* the diagnostics printed on standard error, in order
    STATUS,       \* xtask: the Status behind the mutex, its two lists
    PROJECT_ROOT, \* xtask: the LazyLock, "uninit" until first dereferenced
    building,     \* xtask: how many of TARGETS the for loop of dist has taken
    interrupted   \* xtask, history: SIGINT was delivered to the process

vars == <<pc, argv, license, answers, asked, retries, stdin, prompting, typed,
          texts, add_comment,
          comment, fs, fs0, target, entries, visited, reader, stdout, stderr,
          STATUS, PROJECT_ROOT, building, interrupted>>

genVars == <<argv, license, answers, asked, retries, stdin, prompting, typed>>
outVars == <<add_comment, comment, fs, fs0, target, entries, visited, reader, stdout>>
distVars == <<STATUS, PROJECT_ROOT, building, interrupted>>

---------------------------------------------------------------------------
(* Bounds of the model.                                                    *)

\* invalid answers the operator gives in one run, over all its questions
MaxRetries == 2

---------------------------------------------------------------------------
(* Characters and strings.                                                 *)

LF == "\n"
CR == "\r"

\* char::is_whitespace on the characters the model uses
IsWhitespace(c) == c \in {" ", "\t", LF, CR}

RECURSIVE TrimStart(_)
TrimStart(s) ==
    IF s # <<>> /\ IsWhitespace(Head(s)) THEN TrimStart(Tail(s)) ELSE s

RECURSIVE TrimEnd(_)
TrimEnd(s) ==
    IF s # <<>> /\ IsWhitespace(s[Len(s)])
    THEN TrimEnd(SubSeq(s, 1, Len(s) - 1))
    ELSE s

\* str::trim
Trim(s) == TrimEnd(TrimStart(s))

\* str::lines and BufRead::lines: the text is cut at every LF, a CR right
\* before that LF is dropped with it, and what follows the last LF is a line
\* only when it is not empty.
RECURSIVE LinesFrom(_, _)
LinesFrom(s, cur) ==
    IF s = <<>> THEN (IF cur = <<>> THEN <<>> ELSE <<cur>>)
    ELSE IF Head(s) = LF
         THEN LET line == IF cur # <<>> /\ cur[Len(cur)] = CR
                          THEN SubSeq(cur, 1, Len(cur) - 1)
                          ELSE cur
              IN  <<line>> \o LinesFrom(Tail(s), <<>>)
         ELSE LinesFrom(Tail(s), Append(cur, Head(s)))

Lines(s) == LinesFrom(s, <<>>)

\* the part of s that BufReader::read_line consumes for its first line
RECURSIVE FirstLineLen(_)
FirstLineLen(s) ==
    IF s = <<>> THEN 0
    ELSE IF Head(s) = LF THEN 1 ELSE 1 + FirstLineLen(Tail(s))

Digit(d) == CASE d = 0 -> "0" [] d = 1 -> "1" [] d = 2 -> "2" [] d = 3 -> "3"
              [] d = 4 -> "4" [] d = 5 -> "5" [] d = 6 -> "6" [] d = 7 -> "7"
              [] d = 8 -> "8" [] d = 9 -> "9"

\* Display of an unsigned integer: its decimal digits
RECURSIVE Dec(_)
Dec(n) == IF n < 10 THEN <<Digit(n)>> ELSE Append(Dec(n \div 10), Digit(n % 10))

---------------------------------------------------------------------------
(* The license catalog (license.rs).                                       *)

NoAmmendment == "-"
VersionAmmendment == {"None", "Only", "OrLater"}
BsdAmmendment == {"None", "Attribution", "Modification", "NoMilitary"}

Lic(f, a) == [family |-> f, amend |-> a]

\* ValueEnum::value_variants, in the order of the source
value_variants ==
    << Lic("Mit", NoAmmendment),
       Lic("Agpl3", "None"), Lic("Agpl3", "Only"), Lic("Agpl3", "OrLater"),
       Lic("Gpl3", "None"), Lic("Gpl3", "Only"), Lic("Gpl3", "OrLater"),
       Lic("Lgpl3", "None"), Lic("Lgpl3", "Only"), Lic("Lgpl3", "OrLater"),
       Lic("Apache2", NoAmmendment), Lic("Bsl1", NoAmmendment),
       Lic("Unlicense", NoAmmendment), Lic("Cddl1", NoAmmendment),
       Lic("Epl2", NoAmmendment), Lic("Mpl2", NoAmmendment),
       Lic("Bsd3Clause", "None"), Lic("Bsd3Clause", "Attribution"),
       Lic("Bsd3Clause", "Modification"), Lic("Bsd3Clause", "NoMilitary") >>

Licenses == {value_variants[i] : i \in 1..Len(value_variants)}

GnuFamilies == {"Agpl3", "Gpl3", "Lgpl3"}

\* impl Display for VersionAmmendment
VersionAmmendmentDisplayOnlyDropped(a) ==
    CASE a = "None" -> ""
      [] a = "Only" -> ""
      [] a = "OrLater" -> "-or-later"

VersionAmmendmentDisplay(a) ==
    CASE a = "None" -> ""
      [] a = "Only" -> "-only"
      [] a = "OrLater" -> "-or-later"

\* impl Display for BsdAmmendment
BsdAmmendmentDisplay(a) ==
    CASE a = "None" -> ""
      [] a = "Attribution" -> "-Attribution"
      [] a = "Modification" -> "-Modification"
      [] a = "NoMilitary" -> "-No-Military-License"

\* impl Display for Licenses
LicensesDisplay(l) ==
    CASE l.family = "Mit" -> "MIT"
      [] l.family = "Agpl3" -> "AGPL-3.0" \o VersionAmmendmentDisplay(l.amend)
      [] l.family = "Gpl3" -> "GPL-3.0" \o VersionAmmendmentDisplay(l.amend)
      [] l.family = "Lgpl3" -> "LGPL-3.0" \o VersionAmmendmentDisplay(l.amend)
      [] l.family = "Apache2" -> "Apache-2.0"
      [] l.family = "Bsl1" -> "BSL-1.0"
      [] l.family = "Unlicense" -> "Unlicense"
      [] l.family = "Cddl1" -> "CDDL-1.0"
      [] l.family = "Epl2" -> "EPL-2.0"
      [] l.family = "Mpl2" -> "MPL-2.0"
      [] l.family = "Bsd3Clause" -> "BSD-3-Clause" \o BsdAmmendmentDisplay(l.amend)

\* ValueEnum::to_possible_value: the name of a variant is its display string
to_possible_value(l) == LicensesDisplay(l)

NoLicense == Lic("?", "?")

\* The value parser of Cli::license (ValueEnum::from_str over value_variants):
\* the first variant whose possible value is the identifier, NoLicense (a
\* parse error) when there is none.
RECURSIVE ResolveFrom(_, _)
ResolveFrom(id, i) ==
    IF i > Len(value_variants) THEN NoLicense
    ELSE IF to_possible_value(value_variants[i]) = id THEN value_variants[i]
    ELSE ResolveFrom(id, i + 1)

Resolve(id) == ResolveFrom(id, 1)

---------------------------------------------------------------------------
(* The prompt protocol (io.rs).                                            *)

IsDigit(c) == c \in {"0", "1", "2", "3", "4", "5", "6", "7", "8", "9"}

DigitVal(c) == CASE c = "0" -> 0 [] c = "1" -> 1 [] c = "2" -> 2 [] c = "3" -> 3
                 [] c = "4" -> 4 [] c = "5" -> 5 [] c = "6" -> 6 [] c = "7" -> 7
                 [] c = "8" -> 8 [] c = "9" -> 9

U16Max == 65535

\* a digit string valued in 16 bits with wrapping arithmetic
RECURSIVE DigitsValueWrapping(_, _)
DigitsValueWrapping(s, acc) ==
    IF s = <<>> THEN acc
    ELSE DigitsValueWrapping(Tail(s), (acc * 10 + DigitVal(Head(s))) % (U16Max + 1))

\* the value of a digit string, -1 once it exceeds u16::MAX (checked_mul and
\* checked_add of <u16 as FromStr>)
RECURSIVE DigitsValue(_, _)
DigitsValue(s, acc) ==
    IF s = <<>> THEN acc
    ELSE LET n == acc * 10 + DigitVal(Head(s))
         IN  IF n > U16Max THEN -1 ELSE DigitsValue(Tail(s), n)

\* <u16 as FromStr>::from_str: an optional "+", then one digit or more, the
\* value at most u16::MAX; -1 stands for Err
ParseU16(s) ==
    LET digits == IF s # <<>> /\ Head(s) = "+" THEN Tail(s) ELSE s
    IN  IF digits = <<>> \/ \E i \in 1..Len(digits) : ~IsDigit(digits[i])
        THEN -1
        ELSE DigitsValue(digits, 0)

\* char::to_lowercase on the letters the model uses
ToLower(c) == CASE c = "Y" -> "y" [] c = "N" -> "n" [] c = "E" -> "e"
                [] c = "S" -> "s" [] c = "O" -> "o" [] c = "T" -> "t"
                [] c = "F" -> "f" [] OTHER -> c

to_lowercase(s) == [i \in 1..Len(s) |-> ToLower(s[i])]

YesAnswers == { <<"y", "e", "s">>, <<"y">>, <<"t", "r", "u", "e">>, <<"t">> }
NoAnswers == { <<"n", "o">>, <<"n">>, <<"f", "a", "l", "s", "e">>, <<"f">> }

\* the values a prompt returns
StrVal(s) == [k |-> "str", v |-> s]
U16Val(n) == [k |-> "u16", v |-> n]
BoolVal(b) == [k |-> "bool", v |-> b]
None == [k |-> "none", v |-> <<>>]

Ok(val) == [ok |-> TRUE, val |-> val]
Err == [ok |-> FALSE, val |-> None]

\* a free-text prompt that asks again on a blank line
PromptStringRejectingBlank(input) ==
    IF Trim(input) = <<>> THEN [ok |-> FALSE, val |-> [k |-> "none", v |-> <<>>]]
    ELSE [ok |-> TRUE, val |-> [k |-> "str", v |-> Trim(input)]]

\* One turn of the loop of prompt::<String>, from the buffer read_line filled:
\* String::from_str never fails.
PromptString(input) == Ok(StrVal(Trim(input)))

\* One turn of the loop of prompt::<u16>
PromptU16(input) ==
    LET n == ParseU16(Trim(input))
    IN  IF n >= 0 THEN Ok(U16Val(n)) ELSE Err

\* an optional prompt that hands a blank line to the parser
PromptOptionalStringParsingBlank(input) == Ok(StrVal(Trim(input)))

\* One turn of the loop of prompt_optional::<String>
PromptOptionalString(input) ==
    IF Trim(input) = <<>> THEN Ok(None) ELSE Ok(StrVal(Trim(input)))

\* One turn of the loop of prompt_optional::<u16>
PromptOptionalU16(input) ==
    IF Trim(input) = <<>> THEN Ok(None) ELSE PromptU16(input)

\* a prompt_bool that compares the answer as typed, capitals included
PromptBoolCaseSensitive(input) ==
    LET response == PromptString(input).val.v
    IN  IF response \in YesAnswers THEN Ok(BoolVal(TRUE))
        ELSE IF response \in NoAnswers THEN Ok(BoolVal(FALSE))
        ELSE Err

\* One turn of the loop of prompt_bool, which asks through prompt::<String>
PromptBool(input) ==
    LET response == to_lowercase(PromptString(input).val.v)
    IN  IF response \in YesAnswers THEN Ok(BoolVal(TRUE))
        ELSE IF response \in NoAnswers THEN Ok(BoolVal(FALSE))
        ELSE Err

\* One turn of the loop of prompt_optional_bool, which asks through
\* prompt_optional::<String>
PromptOptionalBool(input) ==
    LET response == PromptOptionalString(input).val
    IN  IF response.k = "none" THEN Ok(None)
        ELSE IF to_lowercase(response.v) \in YesAnswers THEN Ok(BoolVal(TRUE))
        ELSE IF to_lowercase(response.v) \in NoAnswers THEN Ok(BoolVal(FALSE))
        ELSE IF response.v = <<>> THEN Ok(None)
        ELSE Err

---------------------------------------------------------------------------
(* The generators (license.rs, texts/*.rs).  An answer list holds the      *)
(* values the prompts returned so far, in the order they were asked.       *)

\* generate_mit_license: its two prompts
MitPlan == <<"year", "fullname">>

\* BSD prompts that ask every amendment for the organization and the website
BsdPlanAttributionForAll(l) == <<"year", "fullname", "organization", "website">>

\* generate_bsd_license and generate_attribution_license: their prompts
BsdPlan(l) ==
    <<"year", "fullname">>
    \o (IF l.amend = "Attribution" THEN <<"organization", "website">> ELSE <<>>)

\* Apache-2.0: year and full name, as basic_interact answers them
ApachePlan == <<"year", "fullname">>

\* the families test_plain generates without any input
PlainFamilies == {"Bsl1", "Unlicense", "Cddl1", "Mpl2"}

\* plain licenses that ask for the year and the full name
PlainPlanYearAndName == <<"year", "fullname">>

\* BSL-1.0, Unlicense, CDDL-1.0 and MPL-2.0: no question; test_plain runs
\* them with no input at all and expects success
PlainPlan == <<>>

\* GNU questions that leave the short description to AGPL and GPL
GnuQuestionsDescriptionNotLgpl(l) ==
    <<"year", "fullname", "program">>
    \o (IF l.family = "Lgpl3" THEN <<>>
        ELSE <<"version", "description", "interactive">>)
    \o <<"signed">>

\* GNU questions that are the same for the three families
GnuQuestionsSameForAll(l) ==
    <<"year", "fullname", "program", "version", "description", "interactive",
      "signed">>

\* The GNU family, up to "needs signed release", as run_gnu_gen expects the
\* questions: year, full name, program name; the program version unless
\* LGPL; the short description; "is this program interactive" unless LGPL;
\* "needs signed release".  The version amendment plays no part.
GnuQuestions(l) ==
    <<"year", "fullname", "program">>
    \o (IF l.family = "Lgpl3" THEN <<>> ELSE <<"version">>)
    \o <<"description">>
    \o (IF l.family = "Lgpl3" THEN <<>> ELSE <<"interactive">>)
    \o <<"signed">>

\* signing questions with the signer asked first
SigningQuestionsSignerFirst ==
    <<"signer", "sign_org", "title", "day", "month", "sign_year">>

\* the questions run_gnu_gen expects after the yes to "needs signed release"
SigningQuestions ==
    <<"sign_org", "signer", "title", "day", "month", "sign_year">>

\* position of the "needs signed release" question among the GNU prompts
GnuSignedAt(l) == Len(GnuQuestions(l))

\* The GNU family: the questions up to "needs signed release" and, after a
\* yes, the six signing questions
GnuPlan(l, ans) ==
    GnuQuestions(l)
    \o (IF Len(ans) >= GnuSignedAt(l) /\ ans[GnuSignedAt(l)].v = TRUE
        THEN SigningQuestions
        ELSE <<>>)

\* EPL-2.0: the list of secondary licenses
EplPlan == <<"secondary">>

\* generate_license_text: the prompts of the generator of each variant
Plan(l, ans) ==
    CASE l.family = "Mit" -> MitPlan
      [] l.family \in GnuFamilies -> GnuPlan(l, ans)
      [] l.family = "Epl2" -> EplPlan
      [] l.family = "Bsd3Clause" -> BsdPlan(l)
      [] l.family = "Apache2" -> ApachePlan
      [] OTHER -> PlainPlan

\* the prompt function each question is asked with
Kind(q) ==
    CASE q \in {"year", "sign_year"} -> "u16"
      [] q \in {"organization", "website", "version", "secondary"} -> "optional"
      [] q \in {"interactive", "signed"} -> "bool"
      [] OTHER -> "string"

\* the prompt functions: prompt and prompt_optional at the types String and
\* u16, prompt_bool and prompt_optional_bool
PromptKinds == {"string", "u16", "optional", "optional_u16", "bool", "optional_bool"}

\* one turn of the loop of a prompt function
PromptFn(kind, input) ==
    CASE kind = "u16" -> PromptU16(input)
      [] kind = "optional" -> PromptOptionalString(input)
      [] kind = "optional_u16" -> PromptOptionalU16(input)
      [] kind = "bool" -> PromptBool(input)
      [] kind = "optional_bool" -> PromptOptionalBool(input)
      [] OTHER -> PromptString(input)

\* the first words of what a prompt function prints before it asks again
Diagnostic(kind) ==
    IF kind \in {"bool", "optional_bool"} THEN "Please answer" ELSE "Invalid input"

\* one turn of the loop of the prompt function of question q
PromptTurn(q, input) == PromptFn(Kind(q), input)

\* the answer to question q of the plan, None when it was not asked
RECURSIVE AnswerFrom(_, _, _, _)
AnswerFrom(l, ans, q, i) ==
    IF i > Len(ans) THEN None
    ELSE IF Plan(l, ans)[i] = q THEN ans[i]
    ELSE AnswerFrom(l, ans, q, i + 1)

Answer(l, ans, q) == AnswerFrom(l, ans, q, 1)

\* the html_escape of Handlebars::new(), applied to every {{value}} (of the
\* characters it rewrites, the model's alphabet leaves out the backquote)
EscapeChar(c) ==
    CASE c = "&" -> <<"&amp;">>
      [] c = "<" -> <<"&lt;">>
      [] c = ">" -> <<"&gt;">>
      [] c = "\"" -> <<"&quot;">>
      [] c = "'" -> <<"&#x27;">>
      [] c = "=" -> <<"&#x3D;">>
      [] OTHER -> <<c>>

RECURSIVE Escape(_)
Escape(s) == IF s = <<>> THEN <<>> ELSE EscapeChar(Head(s)) \o Escape(Tail(s))

\* the constructor of LicenseTexts
LicenseTexts(text, cmt, alt, interactive) ==
    [text |-> text, comment |-> cmt, alt |-> alt, interactive |-> interactive]

NoTexts == LicenseTexts(<<>>, <<>>, None, None)

\* generate_mit_license: the MIT template rendered, and its comment
MitTexts(year, fullname) ==
    LicenseTexts(
        <<"MIT License", LF, LF, "Copyright (c) ">> \o Dec(year) \o <<" ">>
            \o Escape(fullname) \o <<LF, LF, "Permission is hereby granted...", LF>>,
        <<"SPDX-License-Identifier: MIT">>,
        None, None)

\* BsdLicenseText::fourth of NONE, NO_MILITARY, MODIFICATION and ATTRIBUTION,
\* rendered as the partial fourth_partial
BsdFourth(amend, fullname, organization, website) ==
    CASE amend = "Modification" ->
           <<"4. If any files are modified, you must cause the modified files to...">>
      [] amend = "Attribution" ->
           <<"4. Redistributions of any form whatsoever must retain...developed by the ", "\"">>
           \o (IF organization.k # "none" THEN Escape(organization.v)
               ELSE Escape(fullname))
           \o <<"\"">>
           \o (IF website.k # "none"
               THEN <<" ", "(">> \o Escape(website.v) \o <<")">>
               ELSE <<>>)
           \o <<".", "'">>
      [] OTHER -> <<>>

\* BsdLicenseText::postamble
BsdPostamble(amend) ==
    IF amend = "NoMilitary"
    THEN <<LF, "YOU ACKNOWLEDGE THAT THIS SOFTWARE IS NOT DESIGNED...", LF>>
    ELSE <<>>

\* the template TEXT rendered
BsdText(amend, year, fullname, organization, website) ==
    <<"Copyright (c) ">> \o Dec(year) \o <<" ">> \o Escape(fullname)
    \o <<".", LF, LF, "Redistribution and use in source and binary forms...", LF>>
    \o BsdFourth(amend, fullname, organization, website)
    \o <<LF, LF, "THIS SOFTWARE IS PROVIDED BY THE COPYRIGHT HOLDERS...", LF>>
    \o BsdPostamble(amend) \o <<LF>>

\* the comment of generate_base_license, generate_attribution_license,
\* generate_modification_license and generate_no_military_license
BsdComment(amend) ==
    CASE amend = "None" -> <<"SPDX-License-Identifier: BSD-3-Clause">>
      [] amend = "Attribution" -> <<"SPDX-License-Identifier: BSD-3-Clause-Attribution">>
      [] amend = "Modification" -> <<"SPDX-License-Identifier: BSD-3-Clause-Modification">>
      [] amend = "NoMilitary" -> <<"SPDX-License-Identifier: BSD-3-Clause-No-Military">>

\* generate_base_license, generate_attribution_license,
\* generate_modification_license and generate_no_military_license
BsdTexts(amend, year, fullname, organization, website) ==
    LicenseTexts(BsdText(amend, year, fullname, organization, website),
                 BsdComment(amend), None, None)

\* The comment of the licenses whose generator states no copyright line:
\* the SPDX line of the variant
SpdxLine(l) == <<"SPDX-License-Identifier: " \o LicensesDisplay(l)>>

\* BSL-1.0, Unlicense, CDDL-1.0 and MPL-2.0: the license text and the SPDX line
PlainTexts(l) ==
    LicenseTexts(<<"License text of ", LicensesDisplay(l), LF>>, SpdxLine(l), None, None)

\* Apache-2.0: the SPDX line is followed by a copyright line
ApacheTexts(l, year, fullname) ==
    LicenseTexts(<<"Apache License", LF>>,
                 SpdxLine(l) \o <<LF, "Copyright ">> \o Dec(year) \o <<" ">> \o fullname,
                 None, None)

\* a run-time notice that leaves the version out
GnuNoticeWithoutVersion(program, version, year, fullname) ==
    program \o <<", Copyright (C) ">> \o Dec(year) \o <<" ">> \o fullname

\* the first line of the run-time notice, as run_gnu_gen expects it:
\* "license version 1.0.0, Copyright (C) 2025 Your Name"
GnuNotice(program, version, year, fullname) ==
    program
    \o (IF version.k = "none" THEN <<>> ELSE <<" version ">> \o version.v)
    \o <<", Copyright (C) ">> \o Dec(year) \o <<" ">> \o fullname

\* The GNU family: the SPDX line and the copyright line; the disclaimer of a
\* signed release as alt; the run-time notice of an interactive program,
\* built from program, version, year and full name
GnuTexts(l, ans) ==
    LET year == Answer(l, ans, "year").v
        fullname == Answer(l, ans, "fullname").v
        program == Answer(l, ans, "program").v
        version == Answer(l, ans, "version")
    IN  LicenseTexts(
            <<"License text of ", LicensesDisplay(l), LF>>,
            SpdxLine(l) \o <<LF, "Copyright (C) ">> \o Dec(year) \o <<" ">> \o fullname,
            IF Answer(l, ans, "signed").v = TRUE
            THEN StrVal(Answer(l, ans, "sign_org").v
                        \o <<", hereby disclaims all copyright interest in ">>
                        \o program \o <<LF>>
                        \o Answer(l, ans, "day").v \o <<" ">>
                        \o Answer(l, ans, "month").v \o <<" ">>
                        \o Dec(Answer(l, ans, "sign_year").v) \o <<LF>>
                        \o Answer(l, ans, "signer").v \o <<", ">>
                        \o Answer(l, ans, "title").v)
            ELSE None,
            IF Answer(l, ans, "interactive").k = "bool"
               /\ Answer(l, ans, "interactive").v = TRUE
            THEN StrVal(GnuNotice(program, version, year, fullname))
            ELSE None)

\* the entries of a comma-separated list, each trimmed
RECURSIVE SplitComma(_, _)
SplitComma(s, cur) ==
    IF s = <<>> THEN <<Trim(cur)>>
    ELSE IF Head(s) = "," THEN <<Trim(cur)>> \o SplitComma(Tail(s), <<>>)
    ELSE SplitComma(Tail(s), Append(cur, Head(s)))

\* dash lines that list an entry once only
RECURSIVE DashLinesWithoutRepeats(_)
DashLinesWithoutRepeats(list) ==
    IF list = <<>> THEN <<>>
    ELSE (IF \E i \in 2..Len(list) : list[i] = Head(list) THEN <<>>
          ELSE <<"- ">> \o Head(list) \o <<LF>>)
         \o DashLinesWithoutRepeats(Tail(list))

\* one line per entry: a dash, a space, the entry
RECURSIVE DashLines(_)
DashLines(list) ==
    IF list = <<>> THEN <<>>
    ELSE <<"- ">> \o Head(list) \o <<LF>> \o DashLines(Tail(list))

\* EPL-2.0: a non-empty list of secondary licenses gives an alt block with
\* one dash line per entry, in the order entered
EplTexts(l, ans) ==
    LET secondary == Answer(l, ans, "secondary")
    IN  LicenseTexts(
            <<"License text of ", LicensesDisplay(l), LF>>,
            SpdxLine(l),
            IF secondary.k = "none" THEN None
            ELSE StrVal(<<"This Source Code may also be made available...", LF>>
                        \o DashLines(SplitComma(secondary.v, <<>>))),
            None)

\* generate_license_text, once every prompt of the plan has returned
Generate(l, ans) ==
    CASE l.family = "Mit" -> MitTexts(ans[1].v, ans[2].v)
      [] l.family = "Bsd3Clause" ->
           BsdTexts(l.amend, ans[1].v, ans[2].v,
                    Answer(l, ans, "organization"), Answer(l, ans, "website"))
      [] l.family \in GnuFamilies -> GnuTexts(l, ans)
      [] l.family = "Epl2" -> EplTexts(l, ans)
      [] l.family = "Apache2" -> ApacheTexts(l, ans[1].v, ans[2].v)
      [] OTHER -> PlainTexts(l)

---------------------------------------------------------------------------
(* The inputs of the generation phase.                                     *)

\* what may stand on the command line as the license
Identifiers == {LicensesDisplay(l) : l \in Licenses} \cup {"GPL-2.0", "mit"}

\* the lines the operator may type at a question
InputLines(q) ==
    CASE Kind(q) = "u16" ->
           { <<"2", "0", "2", "5">>, <<" ", "7">>, <<"6", "5", "5", "3", "6">>,
             <<"x">>, <<>> }
      [] Kind(q) = "bool" -> { <<"y">>, <<"N", "o">>, <<"x">> }
      [] q = "fullname" -> { <<"A", "l">>, <<"A", "&", "B">>, <<>> }
      [] q = "secondary" ->
           { <<"M", "I", "T", ",", " ", "M", "I", "T">>, <<"B", ",", "A">>, <<>> }
      [] Kind(q) = "optional" -> { <<"A", "l">>, <<" ">> }
      [] OTHER -> { <<"A", "l">> }

\* the question the generator is at
Question == Plan(license, answers)[Len(answers) + 1]

PlanDone(l, ans) == Len(ans) = Len(Plan(l, ans))

---------------------------------------------------------------------------
(* The file system the output phase works on.                              *)

SRC == "src"                 \* Cli::source_path
OUT == "LICENSE.txt"         \* Cli::output
TMP == "/tmp/.tmpfile"       \* the path NamedTempFile::new() picks

Paths == {SRC, "src/a", "src/b", "src/sub", "src/sub/c", OUT, TMP}

\* the paths right below a directory
Children(p) ==
    CASE p = SRC -> {"src/a", "src/b", "src/sub"}
      [] p = "src/sub" -> {"src/sub/c"}
      [] OTHER -> {}

Absent == [kind |-> "none", data |-> <<>>]
File(d) == [kind |-> "file", data |-> d]
Dir == [kind |-> "dir", data |-> <<>>]
Special == [kind |-> "other", data |-> <<>>]

\* Path::exists, Path::is_dir, Path::is_file
exists(f, p) == f[p].kind # "none"
is_dir(f, p) == f[p].kind = "dir"
is_file(f, p) == f[p].kind = "file"

\* length of the license file a previous run left at the output path
OldLen == 30

\* contents of a source file before the run: empty, one terminated line, a
\* last line without its newline, CRLF line endings
Contents ==
    { <<>>, <<"x", LF>>, <<"x", LF, "y">>, <<"x", CR, LF, "y", CR, LF>> }

OldLicense == [i \in 1..OldLen |-> "o"]

EmptyFs == [p \in Paths |-> Absent]

\* the states of the file system the process may find
InitialFs ==
    LET outs == {Absent, File(OldLicense)}
        base(o) == [EmptyFs EXCEPT ![OUT] = o]
    IN  UNION { { base(o),
                  [base(o) EXCEPT ![SRC] = Special] }
                \cup { [base(o) EXCEPT ![SRC] = File(c)] : c \in Contents }
                \cup { [base(o) EXCEPT ![SRC] = Dir,
                                       !["src/a"] = File(c),
                                       !["src/b"] = b,
                                       !["src/sub"] = sub[1],
                                       !["src/sub/c"] = sub[2]] :
                         c \in Contents,
                         b \in {Absent, File(<<"z", LF>>)},
                         sub \in {<<Absent, Absent>>, <<Dir, File(<<"w", LF>>)>>} }
              : o \in outs }

---------------------------------------------------------------------------
(* write_comment as a function: what it writes.                            *)

\* the header: one line "prefix line" for each line of the comment block
RECURSIVE HeaderLines(_, _)
HeaderLines(prefix, lines) ==
    IF lines = <<>> THEN <<>>
    ELSE <<prefix, " ">> \o Head(lines) \o <<LF>> \o HeaderLines(prefix, Tail(lines))

Header(prefix, comment_block) == HeaderLines(prefix, Lines(comment_block))

\* writeln!(tmp_file, "{}", line?) for one line of the source
CopiedLine(rd) == Lines(SubSeq(rd, 1, FirstLineLen(rd)))[1] \o <<LF>>

\* the whole file write_comment builds for a source that holds data
RECURSIVE CopyAll(_)
CopyAll(rd) ==
    IF rd = <<>> THEN <<>>
    ELSE CopiedLine(rd) \o CopyAll(SubSeq(rd, FirstLineLen(rd) + 1, Len(rd)))

Annotated(prefix, comment_block, data) == Header(prefix, comment_block) \o CopyAll(data)

---------------------------------------------------------------------------
(* The output phase: output, iterate_dir and write_comment (io.rs).        *)

OutputArmMissingFallsThrough(add, ex, dir, file) ==
    CASE add /\ ex /\ dir -> "iterate_dir"
      [] add /\ ex /\ ~dir /\ file -> "write_comment"
      [] add /\ ex /\ ~dir /\ ~file -> "neither"
      [] OTHER -> "print"

OutputArmIgnoringFlag(add, ex, dir, file) ==
    CASE ex /\ dir -> "iterate_dir"
      [] ex /\ ~dir /\ file -> "write_comment"
      [] add /\ ex /\ ~dir /\ ~file -> "neither"
      [] add /\ ~ex -> "missing"
      [] OTHER -> "print"

\* the arm the match of output takes
OutputArm(add, ex, dir, file) ==
    CASE add /\ ex /\ dir -> "iterate_dir"
      [] add /\ ex /\ ~dir /\ file -> "write_comment"
      [] add /\ ex /\ ~dir /\ ~file -> "neither"
      [] add /\ ~ex -> "missing"
      [] OTHER -> "print"

Arm == OutputArm(add_comment, exists(fs, SRC), is_dir(fs, SRC), is_file(fs, SRC))

\* an output that goes on to the license file after a failed annotation
AfterWriteCommentErrFallingThrough(tgt) == "open_license"

\* an iterate_dir that goes on to the next entry after a failed one
AfterWriteCommentErrContinuing(tgt) == IF tgt = SRC THEN "done" ELSE "dir_next"

\* where control goes when write_comment returns Err: output returns, while
\* iterate_dir returns to output, which goes on to open the license file
AfterWriteCommentErr(tgt) == IF tgt = SRC THEN "done" ELSE "open_license"

\* where control goes when write_comment returns Ok
AfterWriteCommentOk(tgt) == IF tgt = SRC THEN "open_license" ELSE "dir_next"

\* where control goes when iterate_dir returns early, on a read_dir error
\* or an entry error: back to output, past the match
AfterIterateDirErr == "open_license"

\* (true, true, true, _) => iterate_dir(...)
OutputDir ==
    /\ pc = "output" /\ Arm = "iterate_dir"
    /\ pc' = "read_dir"
    /\ UNCHANGED <<genVars, texts, distVars, outVars, stderr>>

\* (true, true, _, true) => write_comment(comment, &license.comment, &source_path)
OutputFile ==
    /\ pc = "output" /\ Arm = "write_comment"
    /\ target' = SRC
    /\ pc' = "wc_tmp"
    /\ UNCHANGED <<genVars, texts, distVars, add_comment, comment, fs, fs0, entries,
                   visited, reader, stdout, stderr>>

\* (true, true, false, false) => diagnostic, return
OutputNeither ==
    /\ pc = "output" /\ Arm = "neither"
    /\ stderr' = Append(stderr, "Source path is neither a file nor a directory")
    /\ pc' = "done"
    /\ UNCHANGED <<genVars, texts, distVars, outVars>>

\* (true, false, _, _) => diagnostic, return
OutputMissing ==
    /\ pc = "output" /\ Arm = "missing"
    /\ stderr' = Append(stderr, "Source path does not exist")
    /\ pc' = "done"
    /\ UNCHANGED <<genVars, texts, distVars, outVars>>

\* (false, _, _, _) => the comment block is printed
OutputPrint ==
    /\ pc = "output" /\ Arm = "print"
    /\ stdout' = stdout \o <<"Add this as a comment to the top of your source file(s):",
                             texts.comment>>
    /\ pc' = "open_license"
    /\ UNCHANGED <<genVars, texts, distVars, add_comment, comment, fs, fs0, target, entries,
                   visited, reader, stderr>>

\* iterate_dir: path.read_dir()
ReadDir ==
    /\ pc = "read_dir"
    /\ \/ /\ entries' = {c \in Children(SRC) : exists(fs, c)}
          /\ pc' = "dir_next"
          /\ UNCHANGED stderr
       \/ /\ stderr' = Append(stderr, "Failed to read directory")
          /\ pc' = AfterIterateDirErr
          /\ UNCHANGED entries
    /\ UNCHANGED <<genVars, texts, distVars, add_comment, comment, fs, fs0, target, visited,
                   reader, stdout>>

\* iterate_dir: one turn of "for file in files", in the order the file
\* system yields the entries
DirNext ==
    /\ pc = "dir_next"
    /\ \/ /\ entries = {}
          /\ pc' = "open_license"
          /\ UNCHANGED <<target, entries, visited, stderr>>
       \/ \E e \in entries :
            /\ entries' = entries \ {e}
            /\ \/ /\ target' = e
                  /\ visited' = Append(visited, e)
                  /\ pc' = "wc_tmp"
                  /\ UNCHANGED stderr
               \/ /\ stderr' = Append(stderr, "Failed to read entry in directory")
                  /\ pc' = AfterIterateDirErr
                  /\ UNCHANGED <<target, visited>>
    /\ UNCHANGED <<genVars, texts, distVars, add_comment, comment, fs, fs0, reader, stdout>>

\* an Err return that leaves the temporary file where it is
WriteCommentErrKeepingTmp ==
    /\ stderr' = Append(stderr, "Failed to write comment for file")
    /\ pc' = AfterWriteCommentErr(target)
    /\ reader' = <<>>
    /\ UNCHANGED <<genVars, texts, distVars, add_comment, comment, fs, fs0, target, entries,
                   visited, stdout>>

\* write_comment returns Err(e): the TempPath is dropped, which deletes the
\* temporary file, and the caller prints its diagnostic
WriteCommentErr ==
    /\ fs' = [fs EXCEPT ![TMP] = Absent]
    /\ stderr' = Append(stderr, "Failed to write comment for file")
    /\ pc' = AfterWriteCommentErr(target)
    /\ reader' = <<>>
    /\ UNCHANGED <<genVars, texts, distVars, add_comment, comment, fs0, target, entries,
                   visited, stdout>>

WcFrame == <<genVars, texts, distVars, add_comment, comment, fs0, target, entries, visited,
             stdout, stderr>>

\* NamedTempFile::new()?.into_temp_path()
WcTmp ==
    /\ pc = "wc_tmp"
    /\ \/ /\ fs' = [fs EXCEPT ![TMP] = File(<<>>)]
          /\ pc' = "wc_open_tmp"
          /\ UNCHANGED <<WcFrame, reader>>
       \/ WriteCommentErr

\* OpenOptions::new().write(true).create(true).open(&tmp_path)?
WcOpenTmp ==
    /\ pc = "wc_open_tmp"
    /\ \/ /\ pc' = "wc_header"
          /\ UNCHANGED <<WcFrame, fs, reader>>
       \/ WriteCommentErr

\* for line in comment_block.lines() { writeln!(tmp_file, "{} {}", comment, line)?; }
WcHeader ==
    /\ pc = "wc_header"
    /\ \/ /\ fs' = [fs EXCEPT ![TMP].data = @ \o Header(comment, texts.comment)]
          /\ pc' = "wc_open_src"
          /\ UNCHANGED <<WcFrame, reader>>
       \/ WriteCommentErr

\* OpenOptions::new().read(true).open(&output_file)?  A directory opens for
\* reading on some platforms and fails on others; reading it fails on all.
WcOpenSrc ==
    /\ pc = "wc_open_src"
    /\ \/ /\ fs[target].kind \in {"file", "dir"}
          /\ reader' = fs[target].data
          /\ pc' = "wc_copy"
          /\ UNCHANGED <<WcFrame, fs>>
       \/ WriteCommentErr

\* for line in BufReader::new(src).lines() { writeln!(tmp_file, "{}", line?)?; }
WcCopy ==
    /\ pc = "wc_copy"
    /\ \/ /\ fs[target].kind = "file" /\ reader # <<>>
          /\ fs' = [fs EXCEPT ![TMP].data = @ \o CopiedLine(reader)]
          /\ reader' = SubSeq(reader, FirstLineLen(reader) + 1, Len(reader))
          /\ pc' = "wc_copy"
          /\ UNCHANGED WcFrame
       \/ /\ fs[target].kind = "file" /\ reader = <<>>
          /\ pc' = "wc_flush"
          /\ UNCHANGED <<WcFrame, fs, reader>>
       \/ WriteCommentErr

\* tmp_file.flush()?
WcFlush ==
    /\ pc = "wc_flush"
    /\ \/ /\ pc' = "wc_remove"
          /\ UNCHANGED <<WcFrame, fs, reader>>
       \/ WriteCommentErr

\* what fs::remove_file(&output_file) leaves at the path
Removed(entry) == Absent

\* fs::remove_file(&output_file)?
WcRemove ==
    /\ pc = "wc_remove"
    /\ \/ /\ fs' = [fs EXCEPT ![target] = Removed(@)]
          /\ pc' = "wc_rename"
          /\ UNCHANGED <<WcFrame, reader>>
       \/ WriteCommentErr

\* fs::rename(tmp_path, output_file)?; Ok(()).  The temporary path was moved
\* into the call: when rename fails the temporary file is deleted as well.
WcRename ==
    /\ pc = "wc_rename"
    /\ \/ /\ fs' = [fs EXCEPT ![target] = fs[TMP], ![TMP] = Absent]
          /\ pc' = AfterWriteCommentOk(target)
          /\ UNCHANGED <<WcFrame, reader>>
       \/ WriteCommentErr

\* what the file holds once opened with write(true).create(true).truncate(true)
OpenedWithoutTruncate(old) == old

Opened(old) == <<>>

\* write_all from offset 0 over what the file holds
Written(data, text) == text \o SubSeq(data, Len(text) + 1, Len(data))

\* OpenOptions::new().write(true).create(true).truncate(true).open(&output)
OpenLicense ==
    /\ pc = "open_license"
    /\ \/ /\ fs' = [fs EXCEPT ![OUT] = File(Opened(@.data))]
          /\ pc' = "write_license"
          /\ UNCHANGED stderr
       \/ /\ stderr' = Append(stderr, "Failed to open license file")
          /\ pc' = "done"
          /\ UNCHANGED fs
    /\ UNCHANGED <<genVars, texts, distVars, add_comment, comment, fs0, target, entries,
                   visited, reader, stdout>>

\* license_file.write_all(license.text.as_bytes()); an error may come after
\* part of the text was written
WriteLicense ==
    /\ pc = "write_license"
    /\ \/ /\ fs' = [fs EXCEPT ![OUT].data = Written(@, texts.text)]
          /\ pc' = "flush_license"
          /\ UNCHANGED stderr
       \/ \E k \in 0..(Len(texts.text) - 1) :
            /\ fs' = [fs EXCEPT ![OUT].data = Written(@, SubSeq(texts.text, 1, k))]
            /\ stderr' = Append(stderr, "Failed to write license text")
            /\ pc' = "done"
    /\ UNCHANGED <<genVars, texts, distVars, add_comment, comment, fs0, target, entries,
                   visited, reader, stdout>>

\* a flush whose failure is reported but does not end output
FlushLicenseErrorIgnored ==
    /\ pc = "flush_license"
    /\ \/ /\ pc' = "print_alt"
          /\ UNCHANGED stderr
       \/ /\ stderr' = Append(stderr, "Failed to flush license file")
          /\ pc' = "print_alt"
    /\ UNCHANGED <<genVars, texts, distVars, outVars>>

\* license_file.flush()
FlushLicense ==
    /\ pc = "flush_license"
    /\ \/ /\ pc' = "print_alt"
          /\ UNCHANGED stderr
       \/ /\ stderr' = Append(stderr, "Failed to flush license file")
          /\ pc' = "done"
    /\ UNCHANGED <<genVars, texts, distVars, outVars>>

\* if let Some(alt) = &license.alt { ... println!("{}", alt); }
PrintAlt ==
    /\ pc = "print_alt"
    /\ stdout' = IF texts.alt.k = "none" THEN stdout
                 ELSE stdout \o <<"You'll need to include the following amendment to your license.",
                                  texts.alt.v>>
    /\ pc' = "print_interactive"
    /\ UNCHANGED <<genVars, texts, distVars, add_comment, comment, fs, fs0, target, entries,
                   visited, reader, stderr>>

\* if let Some(interactive) = &license.interactive { ... println!("{}", interactive); }
PrintInteractive ==
    /\ pc = "print_interactive"
    /\ stdout' = IF texts.interactive.k = "none" THEN stdout
                 ELSE stdout \o <<"Since your program is interactive, you should also include the following notice in your program's output.",
                                  texts.interactive.v>>
    /\ pc' = "done"
    /\ UNCHANGED <<genVars, texts, distVars, add_comment, comment, fs, fs0, target, entries,
                   visited, reader, stderr>>

OutputPcs ==
    {"output", "read_dir", "dir_next", "wc_tmp", "wc_open_tmp", "wc_header",
     "wc_open_src", "wc_copy", "wc_flush", "wc_remove", "wc_rename",
     "open_license", "write_license", "flush_license", "print_alt",
     "print_interactive"}

\* the process is terminated from outside: nothing more runs, no destructor
\* either, and the file system stays as it is
Crash ==
    /\ pc \in OutputPcs
    /\ pc' = "crashed"
    /\ UNCHANGED <<genVars, texts, distVars, outVars, stderr>>

---------------------------------------------------------------------------
(* Specification of the output phase: io::output (main.rs, line 72) on the *)
(* LicenseTexts of a generator, under every option and file system.        *)

Al == <<"A", "l">>

\* the generator runs whose LicenseTexts reach output: no notice, alt and
\* interactive notice, alt alone, interactive notice alone
Samples ==
    { [l |-> Lic("Mit", NoAmmendment), ans |-> <<U16Val(2025), StrVal(Al)>>],
      [l |-> Lic("Bsd3Clause", "NoMilitary"), ans |-> <<U16Val(2025), StrVal(Al)>>],
      [l |-> Lic("Gpl3", "OrLater"),
       ans |-> <<U16Val(2025), StrVal(Al), StrVal(Al), StrVal(<<"1">>), StrVal(Al),
                 BoolVal(TRUE), BoolVal(TRUE), StrVal(Al), StrVal(Al), StrVal(Al),
                 StrVal(<<"7">>), StrVal(Al), U16Val(2025)>>],
      [l |-> Lic("Agpl3", "None"),
       ans |-> <<U16Val(2025), StrVal(Al), StrVal(Al), None, StrVal(Al),
                 BoolVal(TRUE), BoolVal(FALSE)>>],
      [l |-> Lic("Epl2", NoAmmendment), ans |-> <<StrVal(<<"M", "I", "T">>)>>] }

CommentPrefixes == {"//", "#"}

\* Status::new
StatusNew == [succeeded |-> <<>>, failed |-> <<>>]

\* the packaging tool is not running
NoDist ==
    /\ STATUS = StatusNew /\ PROJECT_ROOT = "uninit"
    /\ building = 0 /\ interrupted = FALSE

Init ==
    /\ pc = "output"
    /\ \E sm \in Samples :
         /\ license = sm.l
         /\ answers = sm.ans
         /\ argv = LicensesDisplay(sm.l)
         /\ texts = Generate(sm.l, sm.ans)
    /\ asked = <<>> /\ retries = 0 /\ stdin = "open"
    /\ prompting = "" /\ typed = <<>>
    /\ add_comment \in BOOLEAN
    /\ comment \in CommentPrefixes
    /\ fs \in InitialFs
    /\ fs0 = fs
    /\ target = "" /\ entries = {} /\ visited = <<>> /\ reader = <<>>
    /\ stdout = <<>> /\ stderr = <<>>
    /\ NoDist

Next ==
    \/ OutputDir \/ OutputFile \/ OutputNeither \/ OutputMissing \/ OutputPrint
    \/ ReadDir \/ DirNext
    \/ WcTmp \/ WcOpenTmp \/ WcHeader \/ WcOpenSrc \/ WcCopy \/ WcFlush
    \/ WcRemove \/ WcRename
    \/ OpenLicense \/ WriteLicense \/ FlushLicense \/ PrintAlt \/ PrintInteractive
    \/ Crash

Spec == Init /\ [][Next]_vars

---------------------------------------------------------------------------
(* Specification of the generation phase: Cli::parse and                   *)
(* license::generate_license_text (main.rs, lines 56 and 71).              *)

\* Cli::parse: the value parser of the license argument
Parse ==
    /\ pc = "parse"
    /\ license' = Resolve(argv)
    /\ pc' = IF Resolve(argv) = NoLicense THEN "usage"
             ELSE IF PlanDone(Resolve(argv), <<>>) THEN "render"
             ELSE "ask"
    /\ UNCHANGED <<argv, answers, asked, retries, stdin, prompting, typed, texts, distVars,
                   outVars, stderr>>

\* prompt, prompt_optional: cprint!(question); io::stdout().flush()
Ask ==
    /\ pc = "ask"
    /\ asked' = Append(asked, Question)
    /\ \/ /\ pc' = "read"
          /\ UNCHANGED stderr
       \/ /\ stderr' = Append(stderr, "Failed to flush stdout")
          /\ pc' = "exit1"
    /\ UNCHANGED <<argv, license, answers, retries, stdin, prompting, typed,
                   texts, distVars, outVars>>

\* a prompt that ends the process on an answer it cannot parse
AnsweredOrExit(input) ==
    LET r == PromptTurn(Question, input)
    IN  IF r.ok
        THEN /\ answers' = Append(answers, r.val)
             /\ pc' = IF PlanDone(license, Append(answers, r.val))
                      THEN "render" ELSE "ask"
             /\ UNCHANGED <<retries, stderr>>
        ELSE /\ stderr' = Append(stderr, Diagnostic(Kind(Question)))
             /\ pc' = "exit1"
             /\ UNCHANGED <<answers, retries>>

\* what follows io::stdin().read_line(&mut input) once it returned Ok with
\* the buffer input: trim, parse, return the value or print the diagnostic
\* and loop
Answered(input) ==
    LET r == PromptTurn(Question, input)
    IN  IF r.ok
        THEN /\ answers' = Append(answers, r.val)
             /\ pc' = IF PlanDone(license, Append(answers, r.val))
                      THEN "render" ELSE "ask"
             /\ UNCHANGED <<retries, stderr>>
        ELSE /\ retries < MaxRetries
             /\ retries' = retries + 1
             /\ stderr' = Append(stderr, Diagnostic(Kind(Question)))
             /\ pc' = "ask"
             /\ UNCHANGED answers

\* read_line returns a line the operator typed
ReadLine ==
    /\ pc = "read" /\ stdin = "open"
    /\ \E line \in InputLines(Question) : Answered(line \o <<LF>>)
    /\ UNCHANGED <<argv, license, asked, stdin, prompting, typed, texts, distVars, outVars>>

\* read_line returns Ok(0) at end of input and leaves the buffer empty
ReadEof ==
    /\ pc = "read"
    /\ stdin' = "closed"
    /\ Answered(<<>>)
    /\ UNCHANGED <<argv, license, asked, prompting, typed, texts, distVars, outVars>>

\* read_line returns Err(e): process::exit(1)
ReadErr ==
    /\ pc = "read"
    /\ stderr' = Append(stderr, "Failed to read line")
    /\ pc' = "exit1"
    /\ UNCHANGED <<genVars, texts, distVars, outVars>>

\* the generator renders its templates and returns the LicenseTexts
Render ==
    /\ pc = "render"
    /\ texts' = Generate(license, answers)
    /\ pc' = "generated"
    /\ UNCHANGED <<genVars, outVars, distVars, stderr>>

InitGen ==
    /\ pc = "parse"
    /\ argv \in Identifiers
    /\ license = NoLicense
    /\ answers = <<>> /\ asked = <<>> /\ retries = 0 /\ stdin = "open"
    /\ prompting = "" /\ typed = <<>>
    /\ texts = NoTexts
    /\ add_comment = FALSE /\ comment = "//"
    /\ fs = EmptyFs /\ fs0 = EmptyFs
    /\ target = "" /\ entries = {} /\ visited = <<>> /\ reader = <<>>
    /\ stdout = <<>> /\ stderr = <<>>
    /\ NoDist

NextGen == Parse \/ Ask \/ ReadLine \/ ReadEof \/ ReadErr \/ Render

SpecGen == InitGen /\ [][NextGen]_vars

---------------------------------------------------------------------------
(* Specification of the prompt functions (io.rs, lines 184 to 296): the    *)
(* runs of the generators, and each prompt function called once on its    *)
(* own with every kind of line.                                            *)

\* the lines typed to a prompt function called on its own
TypedLines ==
    { <<>>, <<" ">>, <<"7">>, <<"x">>, <<"Y">>, <<" ", "n", "o">>,
      <<"6", "5", "5", "3", "5">>, <<"6", "5", "5", "3", "6">>,
      <<"-", "1">>, <<"+", "7">> }

\* cprint!(question); io::stdout().flush()
PromptAsk ==
    /\ pc = "p_ask"
    /\ asked' = Append(asked, prompting)
    /\ \/ /\ pc' = "p_read"
          /\ UNCHANGED stderr
       \/ /\ stderr' = Append(stderr, "Failed to flush stdout")
          /\ pc' = "exit1"
    /\ UNCHANGED <<argv, license, answers, retries, stdin, prompting, typed,
                   texts, distVars, outVars>>

\* what follows read_line once it returned Ok with the buffer input: the
\* function returns a value, or prints its diagnostic and loops
PromptAnswered(input) ==
    LET r == PromptFn(prompting, input)
    IN  /\ typed' = Append(typed, input)
        /\ IF r.ok
           THEN /\ answers' = <<r.val>>
                /\ pc' = "returned"
                /\ UNCHANGED <<retries, stderr>>
           ELSE /\ retries < MaxRetries
                /\ retries' = retries + 1
                /\ stderr' = Append(stderr, Diagnostic(prompting))
                /\ pc' = "p_ask"
                /\ UNCHANGED answers

PromptReadLine ==
    /\ pc = "p_read" /\ stdin = "open"
    /\ \E line \in TypedLines : PromptAnswered(line \o <<LF>>)
    /\ UNCHANGED <<argv, license, asked, stdin, prompting, texts, distVars, outVars>>

PromptReadEof ==
    /\ pc = "p_read"
    /\ stdin' = "closed"
    /\ PromptAnswered(<<>>)
    /\ UNCHANGED <<argv, license, asked, prompting, texts, distVars, outVars>>

PromptReadErr ==
    /\ pc = "p_read"
    /\ stderr' = Append(stderr, "Failed to read line")
    /\ pc' = "exit1"
    /\ UNCHANGED <<genVars, texts, distVars, outVars>>

InitPrompt ==
    /\ pc = "p_ask"
    /\ prompting \in PromptKinds
    /\ argv = "" /\ license = NoLicense
    /\ answers = <<>> /\ asked = <<>> /\ retries = 0 /\ stdin = "open"
    /\ typed = <<>>
    /\ texts = NoTexts
    /\ add_comment = FALSE /\ comment = "//"
    /\ fs = EmptyFs /\ fs0 = EmptyFs
    /\ target = "" /\ entries = {} /\ visited = <<>> /\ reader = <<>>
    /\ stdout = <<>> /\ stderr = <<>>
    /\ NoDist

NextPrompt == PromptAsk \/ PromptReadLine \/ PromptReadEof \/ PromptReadErr

SpecPrompt == (InitGen \/ InitPrompt) /\ [][NextGen \/ NextPrompt]_vars

---------------------------------------------------------------------------
(* Specification of repeated annotation: write_comment (io.rs, lines 119   *)
(* to 141) called on the same file again and again, each call running to   *)
(* its Ok(()), with the same prefix and comment block.                     *)

\* how many times the file is annotated
MaxRuns == 3

\* a whole call of write_comment that returns Ok(()): the file is replaced by
\* the header followed by the copy of what it held
Annotate ==
    /\ pc = "annotate"
    /\ Len(visited) < MaxRuns
    /\ fs' = [fs EXCEPT ![SRC] = File(Annotated(comment, texts.comment, @.data))]
    /\ visited' = Append(visited, SRC)
    /\ UNCHANGED <<pc, genVars, texts, distVars, add_comment, comment, fs0, target, entries,
                   reader, stdout, stderr>>

InitAnnotate ==
    /\ pc = "annotate"
    /\ \E sm \in Samples :
         /\ license = sm.l
         /\ answers = sm.ans
         /\ argv = LicensesDisplay(sm.l)
         /\ texts = Generate(sm.l, sm.ans)
    /\ asked = <<>> /\ retries = 0 /\ stdin = "open"
    /\ prompting = "" /\ typed = <<>>
    /\ add_comment = TRUE
    /\ comment \in CommentPrefixes
    /\ \E c \in Contents : fs = [EmptyFs EXCEPT ![SRC] = File(c)]
    /\ fs0 = fs
    /\ target = SRC /\ entries = {} /\ visited = <<>> /\ reader = <<>>
    /\ stdout = <<>> /\ stderr = <<>>
    /\ NoDist

NextAnnotate == Annotate

SpecAnnotate == InitAnnotate /\ [][NextAnnotate]_vars

---------------------------------------------------------------------------
(* The dist command of the packaging tool (xtask/src/main.rs). A step that *)
(* returns a Result returns Ok or Err as its environment decides; SIGINT   *)
(* starts the handler thread, which runs beside main until it exits.       *)

TARGETS ==
    << "aarch64-unknown-linux-gnu", "aarch64-unknown-linux-musl",
       "armv7-unknown-linux-gnueabi", "armv7-unknown-linux-gnueabihf",
       "armv7-unknown-linux-musleabi", "armv7-unknown-linux-musleabihf",
       "i686-unknown-linux-gnu", "i686-unknown-linux-musl",
       "riscv64gc-unknown-linux-gnu", "riscv64gc-unknown-linux-musl",
       "x86_64-unknown-linux-gnu", "x86_64-unknown-linux-musl",
       "aarch64-apple-darwin", "x86_64-apple-darwin" >>

\* Status::success, Status::fail, Status::ok
success(st, t) == [st EXCEPT !.succeeded = Append(@, t)]
fail(st, t) == [st EXCEPT !.failed = Append(@, t)]
ok(st) == st.failed = <<>>

\* the process has not exited
Running == pc \in {"xtask", "manpages", "completion", "targets", "bundle", "status"}

\* what the license tool's variables hold while the packaging tool runs
NoLicenseRun ==
    /\ argv = "" /\ license = NoLicense
    /\ answers = <<>> /\ asked = <<>> /\ retries = 0 /\ stdin = "open"
    /\ prompting = "" /\ typed = <<>>
    /\ texts = NoTexts
    /\ add_comment = FALSE /\ comment = "//"
    /\ fs = EmptyFs /\ fs0 = EmptyFs
    /\ target = "" /\ entries = {} /\ visited = <<>> /\ reader = <<>>
    /\ stdout = <<>> /\ stderr = <<>>

licVars == <<genVars, texts, outVars, stderr>>

\* the closure of the LazyLock PROJECT_ROOT, run at the first dereference:
\* locate_project_root() returned the root, or an error and the process
\* exits with status 1. A later dereference finds the value.
ProjectRoot(then) ==
    IF PROJECT_ROOT = "located"
    THEN pc' = then /\ UNCHANGED PROJECT_ROOT
    ELSE \/ pc' = then /\ PROJECT_ROOT' = "located"
         \/ pc' = "exit1" /\ UNCHANGED PROJECT_ROOT

\* XtaskCli::parse() with the subcommand dist: the default of --out-dir is
\* evaluated, OUT_ENV, which reads OUT_DIR and dereferences PROJECT_ROOT
\* when the variable is not set
ParseDist ==
    /\ pc = "xtask"
    /\ \/ pc' = "manpages" /\ UNCHANGED PROJECT_ROOT
       \/ ProjectRoot("manpages")
    /\ UNCHANGED <<STATUS, building, interrupted, licVars>>

\* build_manpages(&out).unwrap_or_else(... fail("manpages"))
Manpages ==
    /\ pc = "manpages"
    /\ \/ UNCHANGED STATUS
       \/ STATUS' = fail(STATUS, "manpages")
    /\ pc' = "completion"
    /\ UNCHANGED <<PROJECT_ROOT, building, interrupted, licVars>>

\* build_completion(&out).unwrap_or_else(... fail("completion"))
Completion ==
    /\ pc = "completion"
    /\ \/ UNCHANGED STATUS
       \/ STATUS' = fail(STATUS, "completion")
    /\ pc' = "targets"
    /\ UNCHANGED <<PROJECT_ROOT, building, interrupted, licVars>>

\* one turn of for target in TARGETS: build(target) sets the directory of
\* its command to PROJECT_ROOT and runs it; Ok records the target as
\* succeeded, Err as failed
BuildTarget ==
    /\ pc = "targets" /\ building < Len(TARGETS)
    /\ ProjectRoot("targets")
    /\ IF pc' = "exit1"
       THEN UNCHANGED <<STATUS, building>>
       ELSE /\ building' = building + 1
            /\ \/ STATUS' = success(STATUS, TARGETS[building + 1])
               \/ STATUS' = fail(STATUS, TARGETS[building + 1])
    /\ UNCHANGED <<interrupted, licVars>>

\* the for loop is over
TargetsDone ==
    /\ pc = "targets" /\ building = Len(TARGETS)
    /\ pc' = "bundle"
    /\ UNCHANGED <<distVars, licVars>>

\* bundle(&out): Ok records "bundle" as succeeded, Err as failed
Bundle ==
    /\ pc = "bundle"
    /\ \/ STATUS' = success(STATUS, "bundle")
       \/ STATUS' = fail(STATUS, "bundle")
    /\ pc' = "status"
    /\ UNCHANGED <<PROJECT_ROOT, building, interrupted, licVars>>

\* the end of main: exit(1) unless Status::ok, else the return from main
ExitStatus ==
    /\ pc = "status"
    /\ pc' = IF ok(STATUS) THEN "exit0" ELSE "exit1"
    /\ UNCHANGED <<distVars, licVars>>

\* Ctrl-C: the handler set by ctrlc::set_handler starts on its thread
Sigint ==
    /\ Running /\ ~interrupted
    /\ interrupted' = TRUE
    /\ UNCHANGED <<pc, STATUS, PROJECT_ROOT, building, licVars>>

\* the handler: STATUS.lock().unwrap().report(); std::process::exit(2)
Handler ==
    /\ Running /\ interrupted
    /\ pc' = "exit2"
    /\ UNCHANGED <<distVars, licVars>>

InitDist ==
    /\ pc = "xtask"
    /\ NoLicenseRun
    /\ NoDist

NextDist ==
    \/ ParseDist \/ Manpages \/ Completion \/ BuildTarget \/ TargetsDone
    \/ Bundle \/ ExitStatus \/ Sigint \/ Handler

SpecDist == InitDist /\ [][NextDist]_vars

---------------------------------------------------------------------------
(* Properties of the output phase (specification Spec).                    *)

\* the source files of the run: the source path and what lies below it
SourcePaths == Paths \ {OUT, TMP}

\* the file write_comment is to leave at path p, from what p held at the start
AnnotatedFile(p) == File(Annotated(comment, texts.comment, fs0[p].data))

\* C1: during single-file annotation the target path holds, in every state
\* (so also after a crash or an I/O error at any step), either the complete
\* original content or the complete annotated content.
C1_TargetAlwaysWhole ==
    (add_comment /\ is_file(fs0, SRC))
        => (fs[SRC] = fs0[SRC] \/ fs[SRC] = AnnotatedFile(SRC))

\* C3: once a fatal condition of the annotation step was reported (a failed
\* directory read, a failed entry, a failed annotation), the license file is
\* not written and neither the alt amendment nor the interactive notice is
\* printed.
C3_FatalStopsProcessing ==
    (add_comment /\ stderr # <<>>
       /\ stderr[1] \in {"Failed to read directory", "Failed to read entry in directory",
                         "Failed to write comment for file",
                         "Source path is neither a file nor a directory",
                         "Source path does not exist"})
        => (fs[OUT] = fs0[OUT] /\ stdout = <<>>)

\* C4: a file that annotation has replaced consists of the header lines
\* followed by its original content, byte for byte.
C4_OriginalKeptByteForByte ==
    \A p \in SourcePaths :
        (is_file(fs0, p) /\ is_file(fs, p) /\ fs[p] # fs0[p])
            => fs[p].data = Header(comment, texts.comment) \o fs0[p].data

\* the files right below the source directory
TopFiles == {p \in Children(SRC) : is_file(fs0, p)}

\* the files of nested subdirectories
NestedFiles ==
    {p \in Paths : \E d \in Children(SRC) : p \in Children(d) /\ is_file(fs0, p)}

\* C7: when the source path is a directory, a run that has annotated the
\* files right below it, and met no error but the one write_comment returns
\* for a subdirectory, has annotated the files of the subdirectories too.
C7_NestedFilesAnnotated ==
    (pc = "done" /\ add_comment /\ is_dir(fs0, SRC)
       /\ \A p \in TopFiles : fs[p] = AnnotatedFile(p)
       /\ \/ stderr = <<>>
          \/ stderr = <<"Failed to write comment for file">> /\ is_dir(fs0, target))
        => \A p \in NestedFiles : fs[p] = AnnotatedFile(p)

\* C8: when annotation is requested and the source path does not exist or is
\* neither a file nor a directory, no path of the file system is created or
\* modified, and the run ends with the one diagnostic of that case.
C8_NoWriteOnBadSource ==
    (add_comment /\ ~is_file(fs0, SRC) /\ ~is_dir(fs0, SRC))
        => /\ fs = fs0
           /\ stdout = <<>>
           /\ pc \in {"output", "done", "crashed"}
           /\ pc = "done" =>
                stderr = << IF exists(fs0, SRC)
                            THEN "Source path is neither a file nor a directory"
                            ELSE "Source path does not exist" >>

C8_Witness ==
    /\ pc = "done" /\ add_comment
    /\ fs0[SRC].kind = "other"
    /\ fs0[OUT].kind = "file"
    /\ stderr # <<>>

\* C9: when annotation is disabled, no source path is read or modified and
\* no temporary file is made, whatever the source path points to, and the
\* comment block is the first thing printed.
C9_DisabledTouchesNoSource ==
    ~add_comment
        => /\ \A p \in Paths \ {OUT} : fs[p] = fs0[p]
           /\ target = "" /\ reader = <<>> /\ entries = {} /\ visited = <<>>
           /\ pc \notin {"output", "crashed"} =>
                (Len(stdout) >= 2 /\ stdout[2] = texts.comment)

C9_Witness ==
    /\ ~add_comment /\ pc = "done"
    /\ is_dir(fs0, SRC) /\ is_file(fs0, "src/sub/c")
    /\ stdout # <<>> /\ stderr = <<>>

\* the license file was opened, written and flushed without an error
PersistDone ==
    \/ pc \in {"print_alt", "print_interactive"}
    \/ /\ pc = "done"
       /\ \/ stderr = <<>>
          \/ stderr[Len(stderr)] \in {"Failed to read directory",
                                      "Failed to read entry in directory"}
          \/ stderr[Len(stderr)] = "Failed to write comment for file" /\ target # SRC

\* C10: after a successful persist the file at the output path holds exactly
\* the rendered text, whether the path was absent or held a longer file.
C10_PersistExact ==
    PersistDone => fs[OUT] = File(texts.text)

C10_Witness ==
    /\ PersistDone /\ pc = "done"
    /\ fs0[OUT] = File(OldLicense)
    /\ Len(OldLicense) > Len(texts.text)
    /\ fs[OUT] # fs0[OUT]

\* the diagnostics of the three steps that persist the license file
PersistDiagnostics ==
    {"Failed to open license file", "Failed to write license text",
     "Failed to flush license file"}

PersistFailed == \E i \in DOMAIN stderr : stderr[i] \in PersistDiagnostics

AltHeading == "You'll need to include the following amendment to your license."

InteractiveHeading ==
    "Since your program is interactive, you should also include the following notice in your program's output."

\* standard output is a sequence of (heading, body) pairs: the positions of
\* the pairs whose heading is h
Printed(h) == {i \in 1..(Len(stdout) \div 2) : stdout[2 * i - 1] = h}

\* C11: the amendment and the interactive notice are printed only once the
\* license file was opened, written and flushed without an error, the
\* amendment before the interactive notice; when one of the three steps
\* fails its failure is reported, output ends and no notice is printed.
C11_NoticesAfterPersist ==
    /\ (Printed(AltHeading) # {} \/ Printed(InteractiveHeading) # {}) =>
            /\ ~PersistFailed
            /\ fs[OUT] = File(texts.text)
            /\ pc \in {"print_interactive", "done", "crashed"}
    /\ \A i \in Printed(AltHeading) :
            /\ texts.alt.k # "none" /\ stdout[2 * i] = texts.alt.v
            /\ \A j \in Printed(InteractiveHeading) : i < j
    /\ \A j \in Printed(InteractiveHeading) :
            /\ texts.interactive.k # "none" /\ stdout[2 * j] = texts.interactive.v
            /\ texts.alt.k # "none" => Printed(AltHeading) # {}
    /\ PersistFailed =>
            /\ pc = "done"
            /\ stderr[Len(stderr)] \in PersistDiagnostics
    /\ (pc = "done" /\ PersistDone) =>
            /\ texts.alt.k # "none" => Printed(AltHeading) # {}
            /\ texts.interactive.k # "none" => Printed(InteractiveHeading) # {}

C11_Witness ==
    /\ pc = "done"
    /\ Printed(AltHeading) # {} /\ Printed(InteractiveHeading) # {}
    /\ fs[OUT] = File(texts.text)

\* the statements of write_comment
WcPcs ==
    {"wc_tmp", "wc_open_tmp", "wc_header", "wc_open_src", "wc_copy", "wc_flush",
     "wc_remove", "wc_rename"}

\* C12: whenever write_comment has returned, with Ok or with the error of
\* any of its steps, no temporary file is left: it was renamed onto the
\* target or deleted.
C12_NoTempFileLeft ==
    pc \notin (WcPcs \cup {"crashed"}) => fs[TMP] = Absent

\* write_comment failed at its last step, the rename: the target is removed
\* and the temporary file is gone too
C12_Witness ==
    /\ pc = "done" /\ target = SRC
    /\ is_file(fs0, SRC) /\ fs[SRC] = Absent
    /\ fs[TMP] = Absent

\* the entries iterate_dir has handed to write_comment
Visited == {visited[i] : i \in 1..Len(visited)}

\* the diagnostics that end iterate_dir
IterateDiagnostics ==
    {"Failed to read directory", "Failed to read entry in directory",
     "Failed to write comment for file"}

\* the state of a directory annotation: only immediate entries are handed
\* to write_comment, each once; the entries handed over before the current
\* one are annotated; what was not handed over is as it was
DirectoryOneByOne ==
    (add_comment /\ is_dir(fs0, SRC)) =>
        /\ Visited \subseteq Children(SRC)
        /\ Cardinality(Visited) = Len(visited)
        /\ \A p \in SourcePaths \ Visited : fs[p] = fs0[p]
        /\ \A i \in 1..(Len(visited) - 1) : fs[visited[i]] = AnnotatedFile(visited[i])
        /\ \A i \in 1..Len(visited) :
              is_dir(fs0, visited[i]) => fs[visited[i]] = fs0[visited[i]]
        /\ (stderr # <<>> /\ stderr[1] = "Failed to read directory") =>
              (visited = <<>> /\ \A p \in SourcePaths : fs[p] = fs0[p])

\* a step taken after iterate_dir reported a failure: no entry is handed to
\* write_comment any more and no source path changes
AfterFailureStep ==
    (add_comment /\ is_dir(fs0, SRC) /\ stderr # <<>>
       /\ stderr[1] \in IterateDiagnostics) =>
        /\ visited' = visited
        /\ \A p \in SourcePaths : fs'[p] = fs[p]

C27_AnnotationBeforeLicense ==
    (add_comment /\ is_file(fs0, SRC)) =>
        /\ (\E i \in DOMAIN stderr : stderr[i] = "Failed to write comment for file") =>
              /\ fs[OUT] = fs0[OUT]
              /\ pc = "done"
              /\ stdout = <<>>
        /\ (fs[OUT] # fs0[OUT]
              \/ pc \in {"open_license", "write_license", "flush_license",
                          "print_alt", "print_interactive"}) =>
              /\ fs[SRC] = AnnotatedFile(SRC)
              /\ fs[TMP] = Absent
              /\ \A i \in DOMAIN stderr : stderr[i] # "Failed to write comment for file"

\* the annotation of a file failed while a license file of an earlier run
\* was there: it is untouched
C27_Witness ==
    /\ pc = "done" /\ add_comment /\ is_file(fs0, SRC)
    /\ stderr = <<"Failed to write comment for file">>
    /\ fs0[OUT] = File(OldLicense) /\ fs[OUT] = fs0[OUT]
    /\ fs[SRC] # fs0[SRC]

---------------------------------------------------------------------------
(* Properties of the packaging tool (specification SpecDist).              *)

\* how many times the target stands in the two lists of STATUS together
Recorded(t) ==
    Cardinality({i \in 1..Len(STATUS.succeeded) : STATUS.succeeded[i] = t})
    + Cardinality({i \in 1..Len(STATUS.failed) : STATUS.failed[i] = t})

\* C30: dist attempts every one of the 14 targets whatever failed before:
\* no target is ever recorded twice, and when the process ends without
\* Ctrl-C each target stands exactly once in exactly one of the succeeded
\* and failed lists; the exit status is 0 when the failed list is empty, 1
\* when it is not, and 2 only after Ctrl-C.
C30_DistAttemptsEveryTarget ==
    /\ Len(TARGETS) = 14
    /\ \A i \in 1..Len(TARGETS) :
          Recorded(TARGETS[i]) = IF i <= building THEN 1 ELSE 0
    /\ pc \in {"exit0", "exit1"} => building = Len(TARGETS)
    /\ pc = "exit0" => STATUS.failed = <<>>
    /\ pc = "exit1" => STATUS.failed # <<>>
    /\ pc = "exit2" => interrupted

---------------------------------------------------------------------------
(* Properties of the generation phase (specification SpecGen).             *)

\* C2: the first line of the rendered comment is "SPDX-License-Identifier: "
\* followed by the display string of the variant.
C2_SpdxIsDisplay ==
    pc = "generated" => Lines(texts.comment)[1] = SpdxLine(license)

\* C5: resolving the display string of a variant yields that variant.
C5_RoundTrip ==
    \A v \in Licenses :
        (pc # "parse" /\ argv = LicensesDisplay(v)) => license = v

C5_Witness ==
    /\ pc = "generated"
    /\ argv = "BSD-3-Clause-No-Military-License"
    /\ license = Lic("Bsd3Clause", "NoMilitary")

\* C6: once end of input was read at a prompt, the process has ended in a
\* fatal I/O error: no question is asked again and no value is returned.
C6_EofIsFatal ==
    stdin = "closed" => pc = "exit1"

---------------------------------------------------------------------------
(* Properties of the prompt functions (specification SpecPrompt).          *)

\* the question the process is at, and the prompt function that asks it
CurrentQuestion == IF prompting # "" THEN prompting ELSE Question

CurrentKind == IF prompting # "" THEN prompting ELSE Kind(Question)

\* a history of questions without the repetitions of a question
RECURSIVE Distinct(_)
Distinct(qs) ==
    IF Len(qs) <= 1 THEN qs
    ELSE IF qs[1] = qs[2] THEN Distinct(Tail(qs))
    ELSE <<qs[1]>> \o Distinct(Tail(qs))

\* the questions issued are the first questions of the generator, in its
\* order, and none beyond the first that has no answer yet
AskedInOrder ==
    (prompting = "" /\ license # NoLicense) =>
        /\ Len(Distinct(asked)) <= Len(Plan(license, answers))
        /\ Distinct(asked) = SubSeq(Plan(license, answers), 1, Len(Distinct(asked)))
        /\ Len(Distinct(asked)) <= Len(answers) + 1
        /\ Len(asked) <= Len(answers) + retries + 1

\* a step from the read of an answer: a value is returned without a
\* diagnostic, or the diagnostic of the prompt function is printed and the
\* same question is the next one asked, or read_line itself failed
AnswerStep ==
    (pc \in {"read", "p_read"}) =>
        \/ /\ answers' # answers
           /\ stderr' = stderr
           /\ pc' \in {"ask", "render", "returned"}
        \/ /\ answers' = answers
           /\ stderr' = Append(stderr, Diagnostic(CurrentKind))
           /\ pc' = (IF prompting # "" THEN "p_ask" ELSE "ask")
           /\ CurrentQuestion' = CurrentQuestion
        \/ /\ answers' = answers
           /\ stderr' = Append(stderr, "Failed to read line")
           /\ pc' = "exit1"

\* a step from the issue of a question: it is the current question
AskStep ==
    (pc \in {"ask", "p_ask"}) => asked' = Append(asked, CurrentQuestion)

\* C13: with every prompt function an answer that does not validate gets a
\* diagnostic and the same question again; it never ends the run, and no
\* later question is issued before the current one has a valid answer.
C13_InvalidAsksAgain ==
    /\ []AskedInOrder
    /\ [][AnswerStep /\ AskStep]_vars

\* a generator run that got an unparsable year and an answer that is neither
\* yes nor no, and went on to the end of its questions
C13_Witness ==
    /\ pc = "generated" /\ license.family \in GnuFamilies
    /\ stderr = <<"Invalid input", "Please answer">>
    /\ Len(asked) = Len(answers) + 2

\* the positions of question q among the distinct questions issued
At(q) == {i \in 1..Len(Distinct(asked)) : Distinct(asked)[i] = q}

\* C15: an LGPL run never issues "program version" nor "is this program
\* interactive"; an AGPL or GPL run issues both, after the program name and
\* before "needs signed release"; the version amendment changes no prompt.
C15_VersionAndInteractive ==
    license.family \in GnuFamilies =>
        /\ license.family = "Lgpl3" => (At("version") = {} /\ At("interactive") = {})
        /\ (license.family # "Lgpl3" /\ At("signed") # {}) =>
              \A p \in At("program"), s \in At("signed") :
                  /\ \E v \in At("version") : p < v /\ v < s
                  /\ \E i \in At("interactive") : p < i /\ i < s
        /\ \A a \in VersionAmmendment :
              Plan(Lic(license.family, a), answers) = Plan(license, answers)

\* a GPL-3.0-or-later run that reached "needs signed release"
C15_Witness ==
    /\ license = Lic("Gpl3", "OrLater")
    /\ At("version") # {} /\ At("interactive") # {} /\ At("signed") # {}
    /\ pc = "generated"

\* C16 as stated: the "short description" prompt is issued for AGPL and GPL
\* only; an LGPL run never issues it and goes from the program name
\* directly to "needs signed release".
C16_DescriptionOnlyAgplGpl ==
    license.family = "Lgpl3" =>
        /\ At("description") = {}
        /\ \A p \in At("program"), s \in At("signed") : s = p + 1

\* C16, amended: the "short description" prompt is issued for the three GNU
\* families, after the program name and before "needs signed release"; an
\* LGPL run goes from the program name to the short description and from
\* there to "needs signed release".
C16_DescriptionForAllGnu ==
    (license.family \in GnuFamilies /\ At("signed") # {}) =>
        \A p \in At("program"), s \in At("signed") :
            /\ \E d \in At("description") : p < d /\ d < s
            /\ license.family = "Lgpl3" =>
                  (p + 1 \in At("description") /\ s = p + 2)

\* an LGPL run that was asked the short description and ran to its end
C16_Witness ==
    /\ license.family = "Lgpl3" /\ pc = "generated"
    /\ At("description") # {} /\ At("signed") # {}

\* C17: the six signing prompts (organization, signer name, signer title,
\* day, month, year, in that order) are issued exactly when "needs signed
\* release" was answered yes; after a no none is issued and the next step
\* is the rendering.
C17_SigningAfterYes ==
    license.family \in GnuFamilies =>
        LET d == Distinct(asked)
            k == GnuSignedAt(license)
            six == <<"sign_org", "signer", "title", "day", "month", "sign_year">>
        IN  IF Len(answers) < k
            THEN Len(d) <= k /\ \A i \in 1..6 : At(six[i]) = {}
            ELSE IF answers[k].v
            THEN /\ Len(d) <= k + 6
                 /\ SubSeq(d, k + 1, Len(d)) = SubSeq(six, 1, Len(d) - k)
                 /\ pc \in {"render", "generated"} => Len(d) = k + 6
            ELSE /\ Len(d) = k
                 /\ pc \in {"render", "generated"}

\* an LGPL run with a signed release that was asked the six questions
C17_Witness ==
    /\ license.family = "Lgpl3" /\ pc = "generated"
    /\ Len(answers) = GnuSignedAt(license) + 6
    /\ answers[GnuSignedAt(license)] = BoolVal(TRUE)
    /\ At("sign_year") = {GnuSignedAt(license) + 6}

\* C18: MIT and BSD-3-Clause under every amendment ask the year, then the
\* full name; the Attribution amendment alone goes on to ask the
\* organization, then the website, both optional; the other amendments and
\* MIT ask exactly the two.
C18_MitBsdPrompts ==
    license.family \in {"Mit", "Bsd3Clause"} =>
        LET d == Distinct(asked)
            all == IF license = Lic("Bsd3Clause", "Attribution")
                   THEN <<"year", "fullname", "organization", "website">>
                   ELSE <<"year", "fullname">>
        IN  /\ Len(d) <= Len(all)
            /\ d = SubSeq(all, 1, Len(d))
            /\ pc \in {"render", "generated"} => (d = all /\ Len(answers) = Len(all))
            /\ \A i \in 1..Len(d) :
                  Kind(d[i]) = (IF i = 1 THEN "u16" ELSE IF i = 2 THEN "string"
                                ELSE "optional")

\* a BSD-3-Clause-Attribution run that was asked its four questions and gave
\* no website
C18_Witness ==
    /\ license = Lic("Bsd3Clause", "Attribution") /\ pc = "generated"
    /\ Distinct(asked) = <<"year", "fullname", "organization", "website">>
    /\ answers[3].k = "str" /\ answers[4].k = "none"

\* C19 as stated: BSL-1.0, Unlicense, CDDL-1.0 and MPL-2.0 ask the year,
\* then the full name, and their generation does not complete without an
\* answer to both.
C19_PlainAskYearAndName ==
    (license.family \in PlainFamilies /\ pc \in {"render", "generated"}) =>
        /\ Distinct(asked) = <<"year", "fullname">>
        /\ Len(answers) = 2

\* C19, amended: BSL-1.0, Unlicense, CDDL-1.0 and MPL-2.0 ask nothing: their
\* generation completes with no answer from the operator; the year and then
\* the full name are what MIT and Apache-2.0 ask, and those two do not
\* complete without both answers.
C19_PlainAskNothing ==
    /\ license.family \in PlainFamilies =>
          /\ asked = <<>> /\ answers = <<>> /\ stderr = <<>>
          /\ pc \in {"render", "generated"}
    /\ (license.family \in {"Mit", "Apache2"} /\ pc \in {"render", "generated"}) =>
          /\ Distinct(asked) = <<"year", "fullname">>
          /\ Len(answers) = 2

\* an MPL-2.0 run whose text was generated without a question
C19_Witness ==
    /\ license = Lic("Mpl2", NoAmmendment) /\ pc = "generated"
    /\ asked = <<>> /\ answers = <<>> /\ stdin = "open"

\* the string t stands in the string s
Contains(s, t) ==
    \E i \in 0..(Len(s) - Len(t)) : SubSeq(s, i + 1, i + Len(t)) = t

\* C20: the full name, the organization and the website stand in the
\* rendered license text exactly as they were entered, whatever characters
\* they hold, and the year stands there as a bare decimal integer.
C20_FreeTextVerbatim ==
    (pc = "generated" /\ license.family \in {"Mit", "Bsd3Clause"}) =>
        LET year == Answer(license, answers, "year").v
            fullname == Answer(license, answers, "fullname").v
            organization == Answer(license, answers, "organization")
            website == Answer(license, answers, "website")
        IN  /\ Contains(texts.text,
                        <<"Copyright (c) ">> \o Dec(year) \o <<" ">> \o fullname)
            /\ license.amend = "Attribution" =>
                  /\ Contains(texts.text,
                        <<"\"">> \o (IF organization.k # "none" THEN organization.v
                                     ELSE fullname) \o <<"\"">>)
                  /\ website.k # "none" =>
                        Contains(texts.text, <<"(">> \o website.v \o <<")">>)

\* the number of commas of a string
Commas(s) == Cardinality({i \in 1..Len(s) : s[i] = ","})

\* C21: for EPL-2.0 a non-empty comma-separated list gives an alt block with
\* one line per entry, a dash before each, in the order entered and with
\* repeated entries kept; an empty list gives no alt block.
C21_SecondaryLicenses ==
    (pc = "generated" /\ license.family = "Epl2") =>
        LET secondary == answers[1]
        IN  IF secondary.k = "none" THEN texts.alt.k = "none"
            ELSE /\ texts.alt.k = "str"
                 /\ Len(Lines(texts.alt.v)) = 1 + Commas(secondary.v) + 1
                 /\ secondary.v = <<"M", "I", "T", ",", " ", "M", "I", "T">> =>
                       SubSeq(Lines(texts.alt.v), 2, 3)
                           = << <<"- ", "M", "I", "T">>, <<"- ", "M", "I", "T">> >>
                 /\ secondary.v = <<"B", ",", "A">> =>
                       SubSeq(Lines(texts.alt.v), 2, 3)
                           = << <<"- ", "B">>, <<"- ", "A">> >>

\* an EPL-2.0 run whose list names the same license twice
C21_Witness ==
    /\ pc = "generated" /\ license.family = "Epl2"
    /\ answers = <<StrVal(<<"M", "I", "T", ",", " ", "M", "I", "T">>)>>
    /\ texts.alt.k = "str"

\* k copies of a string, one after the other
RECURSIVE Copies(_, _)
Copies(k, s) == IF k = 0 THEN <<>> ELSE s \o Copies(k - 1, s)

\* C22: a file annotated k times in a row with the same prefix and comment
\* block begins with k copies of the header, and what follows them is the
\* original content.
C22_HeadersStack ==
    fs[SRC].data = Copies(Len(visited), Header(comment, texts.comment)) \o fs0[SRC].data

\* C23: for the GNU family the run-time notice is in the rendered result
\* exactly when "is this program interactive" was answered yes, so never
\* for LGPL-3.0; when it is there it holds the program version, the year and
\* the full name that were entered.
C23_InteractiveNotice ==
    (pc = "generated" /\ license.family \in GnuFamilies) =>
        LET interactive == Answer(license, answers, "interactive")
            version == Answer(license, answers, "version")
            year == Answer(license, answers, "year").v
            fullname == Answer(license, answers, "fullname").v
        IN  /\ texts.interactive.k # "none" <=> (interactive.k = "bool" /\ interactive.v)
            /\ license.family = "Lgpl3" => texts.interactive.k = "none"
            /\ texts.interactive.k # "none" =>
                  /\ version.k # "none" =>
                        Contains(texts.interactive.v, <<" version ">> \o version.v)
                  /\ Contains(texts.interactive.v,
                              <<", Copyright (C) ">> \o Dec(year) \o <<" ">> \o fullname)

\* a GPL run marked interactive, with a version, that was rendered
C23_Witness ==
    /\ pc = "generated" /\ license.family = "Gpl3"
    /\ Answer(license, answers, "interactive") = BoolVal(TRUE)
    /\ Answer(license, answers, "version").k = "str"
    /\ texts.interactive.k = "str"

\* the prompt functions that return a value of their type and nothing else
RequiredKinds == {"string", "u16", "bool"}

\* the number a string of digits denotes
RECURSIVE Decimal(_)
Decimal(s) == IF s = <<>> THEN 0 ELSE 10 * Decimal(SubSeq(s, 1, Len(s) - 1)) + DigitVal(s[Len(s)])

\* a string of one digit or more
IsDigits(s) == s # <<>> /\ \A i \in 1..Len(s) : IsDigit(s[i])

\* a number as written, without the plus sign it may start with
Unsigned(s) == IF s # <<>> /\ Head(s) = "+" THEN Tail(s) ELSE s

\* the line validates at a required prompt: any line for a string, a decimal
\* integer of 16 bits for the year, a yes or a no in any case for a boolean
Validates(kind, line) ==
    CASE kind = "u16" -> /\ IsDigits(Unsigned(Trim(line)))
                         /\ Decimal(Unsigned(Trim(line))) <= U16Max
      [] kind = "bool" -> to_lowercase(Trim(line)) \in (YesAnswers \cup NoAnswers)
      [] OTHER -> TRUE

\* the value of a line that validates
ValueOf(kind, line) ==
    CASE kind = "u16" -> U16Val(Decimal(Unsigned(Trim(line))))
      [] kind = "bool" -> BoolVal(to_lowercase(Trim(line)) \in YesAnswers)
      [] OTHER -> StrVal(Trim(line))

\* C25: a required prompt returns exactly the first answer that validates:
\* while every answer so far was invalid it has not returned and has asked
\* again each time, and the line that validates (for a boolean the first
\* yes, y, true, t, no, n, false or f in any case) ends it with that value.
C25_FirstValidAnswer ==
    prompting \in RequiredKinds =>
        /\ \A i \in 1..Len(typed) :
              IF Validates(prompting, typed[i])
              THEN /\ i = Len(typed)
                   /\ pc = "returned"
                   /\ answers = <<ValueOf(prompting, typed[i])>>
              ELSE Len(asked) > i \/ pc \in {"p_ask", "exit1"}
        /\ pc = "returned" =>
              (typed # <<>> /\ Validates(prompting, typed[Len(typed)]))
        /\ retries = Len(typed) - (IF pc = "returned" THEN 1 ELSE 0)

\* prompt_bool was given as many invalid lines as the check allows and then
\* a capital Y
C25_Witness ==
    /\ prompting = "bool" /\ pc = "returned"
    /\ retries = MaxRetries
    /\ typed[Len(typed)] = <<"Y", LF>>
    /\ answers = <<BoolVal(TRUE)>>

\* C26: clause 4 of BSD-3-Clause-Attribution names the organization when one
\* was supplied and the full name when it was left blank, and holds the
\* website in parentheses exactly when a website was supplied; the text of
\* the other amendments does not depend on organization or website.
C26_AttributionClause ==
    (pc = "generated" /\ license.family = "Bsd3Clause") =>
        LET year == Answer(license, answers, "year").v
            fullname == Answer(license, answers, "fullname").v
            organization == Answer(license, answers, "organization")
            website == Answer(license, answers, "website")
            named == IF organization.k # "none" THEN organization.v ELSE fullname
        IN  IF license.amend = "Attribution"
            THEN /\ Contains(texts.text, <<"\"">> \o named \o <<"\"">>)
                 /\ website.k # "none" =>
                       Contains(texts.text, <<" ", "(">> \o website.v \o <<")">>)
                 /\ website.k = "none" =>
                       \A i \in 1..Len(texts.text) : texts.text[i] # "("
            ELSE \A o \in {None, StrVal(Al)}, w \in {None, StrVal(Al)} :
                     texts.text = BsdText(license.amend, year, fullname, o, w)

\* the string has no whitespace at either end
Trimmed(s) == s = <<>> \/ (~IsWhitespace(s[1]) /\ ~IsWhitespace(s[Len(s)]))

\* the years the lines of the generation phase denote
AcceptedYears ==
    { Decimal(Unsigned(Trim(l))) : l \in {m \in InputLines("year") : Validates("u16", m)} }

\* C29: the year prompt accepts a line exactly when it is a decimal integer
\* from 0 to 65535: such a line returns its value, and a negative number, a
\* number from 65536 on or text that is no number prints the diagnostic and
\* the question is asked again; a rendered MIT or BSD license carries the
\* year that was typed, never one out of the range or wrapped around.
C29_YearIn16Bits ==
    /\ prompting = "u16" =>
          \A i \in 1..Len(typed) :
              LET t == Unsigned(Trim(typed[i]))
              IN  IF IsDigits(t) /\ Decimal(t) \in 0..U16Max
                  THEN /\ i = Len(typed)
                       /\ pc = "returned"
                       /\ answers = <<U16Val(Decimal(t))>>
                  ELSE /\ Len(stderr) >= i /\ stderr[i] = "Invalid input"
                       /\ i = Len(typed) => (answers = <<>> /\ pc # "returned")
                       /\ Len(asked) > i \/ pc \in {"p_ask", "exit1"}
    /\ prompting = "" =>
          \A i \in 1..Len(answers) :
              answers[i].k = "u16" => answers[i].v \in AcceptedYears
    /\ (pc = "generated" /\ license.family \in {"Mit", "Bsd3Clause"}) =>
          /\ answers[1].k = "u16"
          /\ answers[1].v \in 0..U16Max
          /\ Contains(texts.text, <<"Copyright (c) ">> \o Dec(answers[1].v) \o <<" ">>)

\* the year prompt was given 65536, then -1, then 65535
C29_Witness ==
    /\ prompting = "u16" /\ pc = "returned"
    /\ typed = << <<"6", "5", "5", "3", "6", LF>>, <<"-", "1", LF>>,
                  <<"6", "5", "5", "3", "5", LF>> >>
    /\ stderr = <<"Invalid input", "Invalid input">>
    /\ answers = <<U16Val(U16Max)>>

\* C28: a required free-text prompt takes an empty or whitespace-only line
\* as a valid answer and returns the empty string without asking again;
\* every string a prompt returns has no whitespace at either end; the typed
\* prompts (the year, a yes or no) reject such a line and ask again.
C28_BlankFreeText ==
    /\ \A i \in 1..Len(answers) : answers[i].k = "str" => Trimmed(answers[i].v)
    /\ prompting = "string" =>
          /\ Len(typed) <= 1 /\ Len(asked) <= 1 /\ retries = 0
          /\ typed # <<>> =>
                /\ pc = "returned"
                /\ answers = <<StrVal(Trim(typed[1]))>>
                /\ Trim(typed[1]) = <<>> => answers = <<StrVal(<<>>)>>
    /\ prompting \in {"u16", "bool"} =>
          \A i \in 1..Len(typed) :
              Trim(typed[i]) = <<>> =>
                  /\ Len(stderr) >= i /\ stderr[i] = Diagnostic(prompting)
                  /\ i = Len(typed) => (answers = <<>> /\ pc \in {"p_ask", "p_read", "exit1"})

\* the free-text prompt was given a line of blanks and returned the empty
\* string
C28_Witness ==
    /\ prompting = "string" /\ pc = "returned"
    /\ typed = << <<" ", LF>> >>
    /\ answers = <<StrVal(<<>>)>>
    /\ stderr = <<>>

\* the prompt functions that may return no value
OptionalKinds == {"optional", "optional_u16", "optional_bool"}

\* C14: an optional prompt, typed or boolean, given an empty or
\* whitespace-only line returns absent at once: no diagnostic is printed for
\* that line and the question is not asked again; the lines it asked again
\* after were not blank and each got a diagnostic.
C14_BlankIsAbsent ==
    prompting \in OptionalKinds =>
        \A i \in 1..Len(typed) :
            IF Trim(typed[i]) = <<>>
            THEN /\ i = Len(typed)
                 /\ pc = "returned"
                 /\ answers[1].k = "none"
                 /\ Len(asked) = i
                 /\ Len(stderr) = i - 1
            ELSE (i < Len(typed) \/ pc # "returned") =>
                     /\ Len(stderr) >= i
                     /\ stderr[i] = Diagnostic(prompting)

\* prompt_optional_bool got a line that is neither yes nor no, asked again
\* and got a line of blanks
C14_Witness ==
    /\ prompting = "optional_bool" /\ pc = "returned"
    /\ Len(typed) = 2
    /\ Trim(typed[1]) = <<"x">> /\ typed[2] = <<" ", LF>>
    /\ answers = <<None>>

====
